---------------------------- MODULE Spec2Model ----------------------------
(***************************************************************************)
(* Model of the style / grammar suggestion tools in src/tools:             *)
(*   grammar_check.py   - extract_text_from_markdown, check_grammar        *)
(*   style_check.py     - check_style                                      *)
(*   combine_results.py - combine_results                                  *)
(*   combined_check.py  - combine_suggestions                              *)
(*                                                                         *)
(* A Python string is modelled as a sequence of tokens.  A token is one    *)
(* punctuation character (space, "-", "#", "*", ">", "[", "]", ":", "\n",  *)
(* and "BQ" for the backquote), one inline image "![](u)", or one whole    *)
(* word.  Regular expressions, str.strip, str.split, str.replace, "in"     *)
(* and slicing are computed on these sequences the way Python computes     *)
(* them on characters.                                                     *)
(***************************************************************************)
EXTENDS Integers, Sequences, FiniteSets, TLC

VARIABLES
    entry,               \* which function was called
    pc,                  \* position inside it
    content,             \* the document text (argument `content`)
    i,                   \* loop index over lines (0-based, as in the code)
    text_lines,          \* extract_text_from_markdown: text_lines
    line_map,            \* extract_text_from_markdown: line_map (a dict)
    current_text_line,   \* extract_text_from_markdown: current_text_line
    text,                \* the extracted text
    service,             \* what the grammar service did for this call
    m,                   \* number of matches of the response processed so far
    match,               \* check_grammar: the loop variable `match`
    emitted,             \* the suggestions appended by the last loop iteration
    suggestions,         \* check_style / check_grammar: suggestions
    style_file,          \* aggregator input: content of the style file
    grammar_file,        \* aggregator input: content of the grammar file
    style_suggestions,   \* aggregator local
    grammar_suggestions, \* aggregator local
    output_file,         \* aggregator output: what was written
    writable,            \* aggregator input: whether the output file can be written
    write_failed,        \* the write of the output file was tried and failed
    total_suggestions,   \* combine_results.py __main__: total_suggestions
    exit_status,         \* combine_results.py __main__: the status given to sys.exit
    documents,           \* directory run: what happens to each document, in visiting order
    visited,             \* directory run: the number of documents done
    all_suggestions,     \* grammar_check.py / style_check.py main: all_suggestions
    all_style_suggestions,    \* combined_check.py main
    all_grammar_suggestions,  \* combined_check.py main
    saved                \* directory run: the suggestions in the output file

vars == <<entry, pc, content, i, text_lines, line_map, current_text_line, text,
          service, m, match, emitted, suggestions, style_file, grammar_file,
          style_suggestions, grammar_suggestions, output_file,
          writable, write_failed, total_suggestions, exit_status,
          documents, visited, all_suggestions, all_style_suggestions,
          all_grammar_suggestions, saved>>

extractVars == <<i, text_lines, line_map, current_text_line, text>>
grammarVars == <<service, m, match, emitted>>
combineVars == <<style_file, grammar_file, style_suggestions,
                 grammar_suggestions, output_file>>
mainVars == <<writable, write_failed, total_suggestions, exit_status>>
batchVars == <<documents, visited, all_suggestions, all_style_suggestions,
               all_grammar_suggestions, saved>>

(***************************************************************************)
(* Bounds of the model.                                                    *)
(***************************************************************************)
MaxLines == 3          \* lines of a document given to the extractor / style checker
MaxGrammarLines == 2   \* lines of a document given to check_grammar
MaxMatches == 2        \* matches in one grammar-service response
MaxItems == 2          \* items of the two suggestion files together
MaxLineNo == 2         \* largest "line" of a record in a suggestion file
MaxDocs == 3           \* documents of a directory run

NL == "\n"
FilePath == "doc.md"

Min(a, b) == IF a < b THEN a ELSE b

(***************************************************************************)
(* Python string primitives on token sequences.                            *)
(***************************************************************************)
IsSpace(c) == c \in {" ", NL}

\* s[a:b] for 0 <= a, 0 <= b
PySlice(s, a, b) == SubSeq(s, a + 1, Min(b, Len(s)))

RECURSIVE LStrip(_)
LStrip(s) == IF s # <<>> /\ IsSpace(Head(s)) THEN LStrip(Tail(s)) ELSE s

RECURSIVE RStrip(_)
RStrip(s) ==
    IF s # <<>> /\ IsSpace(s[Len(s)]) THEN RStrip(SubSeq(s, 1, Len(s) - 1)) ELSE s

\* str.strip()
Strip(s) == RStrip(LStrip(s))

\* s.startswith(pat) at 1-based position p
MatchesAt(s, p, pat) ==
    /\ p + Len(pat) - 1 <= Len(s)
    /\ \A k \in 1..Len(pat) : s[p + k - 1] = pat[k]

\* pat in s
Contains(s, pat) == \E p \in 1..(Len(s) + 1) : MatchesAt(s, p, pat)

\* s.count("\n")
CountNL(s) == Cardinality({p \in 1..Len(s) : s[p] = NL})

\* content.split('\n')
RECURSIVE Split(_)
Split(s) ==
    IF \A p \in 1..Len(s) : s[p] # NL
    THEN <<s>>
    ELSE LET p == CHOOSE q \in 1..Len(s) :
                      s[q] = NL /\ \A r \in 1..(q - 1) : s[r] # NL
         IN  <<SubSeq(s, 1, p - 1)>> \o Split(SubSeq(s, p + 1, Len(s)))

\* '\n'.join(ls)
RECURSIVE Join(_)
Join(ls) ==
    IF ls = <<>> THEN <<>>
    ELSE IF Len(ls) = 1 THEN ls[1]
    ELSE ls[1] \o <<NL>> \o Join(Tail(ls))

\* s.replace(old, new) for old # "" : every non-overlapping occurrence, left to right
RECURSIVE ReplaceFrom(_, _, _)
ReplaceFrom(s, old, new) ==
    IF s = <<>> THEN <<>>
    ELSE IF MatchesAt(s, 1, old)
         THEN new \o ReplaceFrom(SubSeq(s, Len(old) + 1, Len(s)), old, new)
         ELSE <<Head(s)>> \o ReplaceFrom(Tail(s), old, new)

\* s.replace("", new) : new before every character and at the end
RECURSIVE Intersperse(_, _)
Intersperse(s, new) ==
    IF s = <<>> THEN new ELSE new \o <<Head(s)>> \o Intersperse(Tail(s), new)

\* s.replace(old, new)
PyReplace(s, old, new) ==
    IF old = <<>> THEN Intersperse(s, new) ELSE ReplaceFrom(s, old, new)

(***************************************************************************)
(* Block classifier (grammar_check.py).  Indices are 0-based as in the     *)
(* code: line i of the code is lines[i + 1] here.                          *)
(***************************************************************************)
BQ == "BQ"   \* the backquote character
Fence == <<BQ, BQ, BQ>>
FrontmatterMarker == <<"-", "-", "-">>

\* re.match(r'^<three backquotes>', line)
StartsWithFence(line) == MatchesAt(line, 1, Fence)

\* a slip: the parity test reversed
is_in_code_block_even(lines, line_index) ==
    LET code_block_count ==
            Cardinality({j \in 0..(line_index - 1) : StartsWithFence(lines[j + 1])})
    IN  code_block_count % 2 = 0

is_in_code_block(lines, line_index) ==
    LET code_block_count ==
            Cardinality({j \in 0..(line_index - 1) : StartsWithFence(lines[j + 1])})
    IN  code_block_count % 2 = 1

is_in_yaml_frontmatter(lines, line_index) ==
    IF line_index = 0 /\ Strip(lines[1]) = FrontmatterMarker
    THEN TRUE
    ELSE LET frontmatter_markers ==
                 Cardinality({j \in 0..(line_index - 1) :
                                  Strip(lines[j + 1]) = FrontmatterMarker})
         IN  frontmatter_markers % 2 = 1

(***************************************************************************)
(* The structural filters of extract_text_from_markdown.                   *)
(***************************************************************************)
\* re.match(r'^#+\s', line)
IsHeading(line) ==
    \E n \in 1..Len(line) :
        /\ \A k \in 1..n : line[k] = "#"
        /\ n + 1 <= Len(line)
        /\ IsSpace(line[n + 1])

\* re.match(r'^[*-]\s', line)
IsListItem(line) ==
    Len(line) >= 2 /\ line[1] \in {"*", "-"} /\ IsSpace(line[2])

\* re.match(r'^\s*<three backquotes>', line)
IsFenceMarker(line) == MatchesAt(LStrip(line), 1, Fence)

\* re.match(r'^\s*\[.*\]:\s*', line)
IsLinkReference(line) ==
    LET s == LStrip(line)
    IN  /\ s # <<>>
        /\ s[1] = "["
        /\ \E q \in 2..(Len(s) - 1) : s[q] = "]" /\ s[q + 1] = ":"

\* the condition of the `continue` at lines 50-57
Skipped(lines, idx) ==
    LET line == lines[idx + 1]
    IN  \/ is_in_code_block(lines, idx)
        \/ is_in_yaml_frontmatter(lines, idx)
        \/ IsHeading(line)
        \/ IsListItem(line)
        \/ IsFenceMarker(line)
        \/ IsLinkReference(line)
        \/ Strip(line) = <<>>

(***************************************************************************)
(* markdown.markdown(line) followed by BeautifulSoup.get_text().  The two  *)
(* libraries are not part of the repository; the operator states what they *)
(* return for the line shapes of the model:                                *)
(*   "> quote"  renders to <blockquote>\n<p>quote</p>\n</blockquote>, and  *)
(*              get_text() keeps the newlines between the tags;            *)
(*   "![](u)"   renders to <p><img .../></p>, which has no text;           *)
(*   "*word*"   renders to <p><em>word</em></p>, text "word";              *)
(*   "---"      renders to <hr />, which has no text;                      *)
(*   any other paragraph line renders to <p>line</p>, text the line.       *)
(***************************************************************************)
Image == "![](u)"

RECURSIVE InlineText(_)
InlineText(s) ==
    IF s = <<>> THEN <<>>
    ELSE IF Head(s) = Image THEN InlineText(Tail(s))
    ELSE IF /\ Len(s) >= 3
            /\ s[1] = "*" /\ s[3] = "*"
            /\ s[2] \notin {" ", "*", NL}
         THEN <<s[2]>> \o InlineText(SubSeq(s, 4, Len(s)))
    ELSE <<Head(s)>> \o InlineText(Tail(s))

MarkdownGetText(line) ==
    IF RStrip(line) = FrontmatterMarker THEN <<>>
    ELSE IF line # <<>> /\ line[1] = ">"
    THEN <<NL>> \o InlineText(LStrip(Tail(line))) \o <<NL>>
    ELSE InlineText(line)


(***************************************************************************)
(* extract_text_from_markdown (grammar_check.py:40-69), one loop iteration *)
(* per step.                                                               *)
(***************************************************************************)
\* d[k] = v on a Python dict
DictSet(d, k, v) == [x \in (DOMAIN d) \cup {k} |-> IF x = k THEN v ELSE d[x]]

ExtractLine ==
    /\ pc = "extract_loop"
    /\ LET lines == Split(content)
       IN  /\ i < Len(lines)
           /\ IF Skipped(lines, i)
              THEN UNCHANGED <<text_lines, line_map, current_text_line>>
              ELSE LET text_line == MarkdownGetText(lines[i + 1])
                   IN  IF Strip(text_line) # <<>>
                       THEN /\ text_lines' = Append(text_lines, text_line)
                            /\ line_map' = DictSet(line_map, current_text_line, i)
                            /\ current_text_line' = current_text_line + 1
                       ELSE UNCHANGED <<text_lines, line_map, current_text_line>>
    /\ i' = i + 1
    /\ UNCHANGED mainVars
    /\ UNCHANGED batchVars
    /\ UNCHANGED <<entry, pc, content, text, grammarVars, suggestions, combineVars>>

ExtractReturn ==
    /\ pc = "extract_loop"
    /\ i = Len(Split(content))
    /\ text' = Join(text_lines)
    /\ pc' = "extracted"
    /\ UNCHANGED mainVars
    /\ UNCHANGED batchVars
    /\ UNCHANGED <<entry, content, i, text_lines, line_map, current_text_line,
                   grammarVars, suggestions, combineVars>>

(***************************************************************************)
(* check_grammar (grammar_check.py:71-139).                                *)
(*                                                                         *)
(* The service is an input.  Its outcomes:                                 *)
(*   network_error  requests.post raises ConnectionError                   *)
(*   http_error     raise_for_status raises HTTPError (non-2xx)            *)
(*   bad_json       the body is not JSON: response.json() raises           *)
(*   not_object     the body is JSON but not an object (for example [])    *)
(*   ok             the body is an object; its "matches" are read one per  *)
(*                  loop iteration, at most MaxMatches of them             *)
(* A match is [offset, context, replacements, message]; the "length" of a  *)
(* match is read at line 102 and never used.  kind "not_object" is an      *)
(* element of "matches" that is not a JSON object.                         *)
(***************************************************************************)
Message == <<"typo">>

Contexts ==
    { [text |-> <<"teh", " ", "cat">>, offset |-> 0, length |-> 1],
      [text |-> <<"a", " ", "cat">>,   offset |-> 2, length |-> 1] }

\* the "replacements" lists, each replacement given by its "value"
ReplacementLists ==
    { <<>>, << <<>> >>, << <<"the">> >>, << <<"teh">>, <<"the">> >> }

NoMatch ==
    [kind |-> "none", offset |-> 0, context |-> [text |-> <<>>, offset |-> 0, length |-> 0],
     replacements |-> <<>>, message |-> <<>>]

Matches(txt) ==
    { [kind |-> "match", offset |-> o, context |-> c, replacements |-> r,
       message |-> Message] :
          o \in 0..Len(txt), c \in Contexts, r \in ReplacementLists }
    \cup { [NoMatch EXCEPT !.kind = "not_object"] }

\* context_text[context_offset:context_offset + context_length]
ErrorText(mt) ==
    PySlice(mt.context.text, mt.context.offset, mt.context.offset + mt.context.length)

\* replacements[0].get('value', '') if replacements else ''
SuggestedText(mt) ==
    IF mt.replacements # <<>> THEN mt.replacements[1] ELSE <<>>

\* a slip: the character at the offset is counted too
TextLineNumInclusive(txt, offset) == CountNL(PySlice(txt, 0, offset + 1))

\* text[:offset].count('\n')
TextLineNum(txt, offset) == CountNL(PySlice(txt, 0, offset))

\* line 133: 1-based line numbers
OneBased(md_line_num) == md_line_num + 1

\* line 128
ShouldSuggest(suggested_text, error_text, original_line) ==
    suggested_text # <<>> /\ Contains(original_line, error_text)

\* the body of the loop at lines 99-137: the suggestions one match appends
MatchSuggestions(lines, txt, lmap, mt) ==
    LET text_line_num == TextLineNum(txt, mt.offset)
    IN  IF text_line_num \in DOMAIN lmap
        THEN LET md_line_num    == lmap[text_line_num]
                 original_line  == lines[md_line_num + 1]
                 error_text     == ErrorText(mt)
                 suggested_text == SuggestedText(mt)
             IN  IF ShouldSuggest(suggested_text, error_text, original_line)
                 THEN << [file      |-> FilePath,
                          line      |-> OneBased(md_line_num),
                          original  |-> original_line,
                          suggested |-> PyReplace(original_line, error_text,
                                                  suggested_text),
                          reason    |-> <<"Grammar", ":", " ">> \o mt.message] >>
                 ELSE <<>>
        ELSE <<>>

\* lines 76-77
ReturnEmptyText ==
    /\ entry = "check_grammar"
    /\ pc = "extracted"
    /\ Strip(text) = <<>>
    /\ pc' = "returned"
    /\ UNCHANGED mainVars
    /\ UNCHANGED batchVars
    /\ UNCHANGED <<entry, content, extractVars, grammarVars, suggestions, combineVars>>

\* lines 87-93, and the result.get of line 99
CallService ==
    /\ entry = "check_grammar"
    /\ pc = "extracted"
    /\ Strip(text) # <<>>
    /\ \E outcome \in {"network_error", "http_error", "bad_json", "not_object", "ok"} :
          /\ service' = outcome
          /\ \/ /\ outcome \in {"network_error", "http_error"}
                /\ pc' = "returned"
             \/ /\ outcome = "bad_json"
                \* response.json() raises requests.exceptions.JSONDecodeError,
                \* a RequestException (requests 2.27 and later): caught at line 91
                /\ pc' = "returned"
             \/ /\ outcome = "not_object"
                /\ pc' = "raised"
             \/ /\ outcome = "ok"
                /\ pc' = "match_loop"
    /\ UNCHANGED mainVars
    /\ UNCHANGED batchVars
    /\ UNCHANGED <<entry, content, extractVars, m, match, emitted, suggestions,
                   combineVars>>

\* one iteration of the loop at lines 99-137
ProcessMatch ==
    /\ pc = "match_loop"
    /\ m < MaxMatches
    /\ \E mt \in Matches(text) :
          /\ match' = mt
          /\ IF mt.kind = "not_object"
             THEN /\ pc' = "raised"
                  /\ UNCHANGED <<emitted, suggestions>>
             ELSE /\ emitted' = MatchSuggestions(Split(content), text, line_map, mt)
                  /\ suggestions' = suggestions \o emitted'
                  /\ pc' = pc
    /\ m' = m + 1
    /\ UNCHANGED mainVars
    /\ UNCHANGED batchVars
    /\ UNCHANGED <<entry, content, extractVars, service, combineVars>>

\* line 139
ReturnSuggestions ==
    /\ pc = "match_loop"
    /\ pc' = "returned"
    /\ UNCHANGED mainVars
    /\ UNCHANGED batchVars
    /\ UNCHANGED <<entry, content, extractVars, grammarVars, suggestions, combineVars>>

(***************************************************************************)
(* check_style (style_check.py:82-111) with STYLE_RULES (lines 20-52).     *)
(*                                                                         *)
(* A pattern is the set of its alternatives, each a sequence of lower-case *)
(* tokens; re.IGNORECASE is Lower on the tokens of the line.  \b holds at  *)
(* an end of the line and between a word token and a punctuation token.    *)
(***************************************************************************)
Punctuation == {" ", NL, BQ, "-", "#", "*", ">", "[", "]", ":", ".", Image}
IsWordToken(t) == t \notin Punctuation

Lower(t) ==
    CASE t = "Utilize" -> "utilize"
      [] t = "We"      -> "we"
      [] OTHER         -> t

Words(ws) == \* the words separated by single spaces
    [k \in 1..(2 * Len(ws) - 1) |-> IF k % 2 = 1 THEN ws[(k + 1) \div 2] ELSE " "]

STYLE_RULES ==
    << [pattern     |-> {<<"utilize">>, <<"utilization">>, <<"utilizes">>, <<"utilizing">>},
        replacement |-> <<"use">>,
        reason      |-> <<"Use 'use' instead of 'utilize' for simplicity.">>],
       [pattern     |-> {<<"optimize">>, <<"optimization">>, <<"optimizes">>, <<"optimizing">>},
        replacement |-> <<"improve">>,
        reason      |-> <<"Simplify language by replacing 'optimize' with 'improve'.">>],
       [pattern     |-> {Words(<<"in", "order", "to">>)},
        replacement |-> <<"to">>,
        reason      |-> <<"Use 'to' instead of 'in order to' for conciseness.">>],
       [pattern     |-> {Words(<<"please", "note", "that">>)},
        replacement |-> <<>>,
        reason      |-> <<"Remove 'please note that' for directness.">>],
       [pattern     |-> {Words(<<"the", "data", "is", "processed">>),
                         Words(<<"the", "data", "was", "processed">>)},
        replacement |-> Words(<<"processed", "the", "data">>),
        reason      |-> <<"Use active voice instead of passive voice.">>],
       [pattern     |-> {Words(<<"you", "should">>)},
        replacement |-> <<>>,
        reason      |-> <<"Be direct with instructions, avoid 'you should'.">>] >>

\* the alternative alt matches line at 1-based position p
AltMatchesAt(line, p, alt) ==
    LET last == p + Len(alt) - 1
    IN  /\ last <= Len(line)
        /\ \A k \in 1..Len(alt) : Lower(line[p + k - 1]) = alt[k]
        /\ p = 1 \/ ~IsWordToken(line[p - 1])
        /\ last = Len(line) \/ ~IsWordToken(line[last + 1])

PatternMatchesAt(line, p, pattern) == \E alt \in pattern : AltMatchesAt(line, p, alt)

\* re.finditer(pattern, line, re.IGNORECASE) yields at least one match
HasMatch(line, pattern) == \E p \in 1..Len(line) : PatternMatchesAt(line, p, pattern)

\* re.sub(pattern, replacement, line, flags=re.IGNORECASE) from position p on
RECURSIVE ReSubFrom(_, _, _, _)
ReSubFrom(line, p, pattern, replacement) ==
    IF p > Len(line) THEN <<>>
    ELSE IF PatternMatchesAt(line, p, pattern)
         THEN LET alt == CHOOSE a \in pattern : AltMatchesAt(line, p, a)
              IN  replacement \o ReSubFrom(line, p + Len(alt), pattern, replacement)
         ELSE <<line[p]>> \o ReSubFrom(line, p + 1, pattern, replacement)

ReSub(pattern, replacement, line) == ReSubFrom(line, 1, pattern, replacement)

\* style_check.py:113-120, the same function as in grammar_check.py
style_is_in_code_block(lines, line_index) ==
    LET code_block_count ==
            Cardinality({j \in 0..(line_index - 1) : StartsWithFence(lines[j + 1])})
    IN  code_block_count % 2 = 1

\* lines 89-109 for one rule: the loop over the matches appends nothing for a
\* match in a code block or one whose substitution changes nothing, and leaves
\* at the first suggestion it appends (the break of line 109)
RuleSuggestions(lines, idx, rule) ==
    LET line      == lines[idx + 1]
        original  == line
        suggested == ReSub(rule.pattern, rule.replacement, line)
    IN  IF /\ HasMatch(line, rule.pattern)
           /\ ~style_is_in_code_block(lines, idx)
           /\ original # suggested
        THEN << [file         |-> FilePath,
                 line         |-> idx + 1,
                 original     |-> original,
                 suggested    |-> suggested,
                 reason       |-> rule.reason,
                 file_content |-> Join(lines)] >>
        ELSE <<>>

\* the loop over STYLE_RULES at line 88, from rule r on: the break of line 109
\* leaves the loop over the matches only, so every rule is tried
RECURSIVE RulesFrom(_, _, _)
RulesFrom(lines, idx, r) ==
    IF r > Len(STYLE_RULES) THEN <<>>
    ELSE RuleSuggestions(lines, idx, STYLE_RULES[r]) \o RulesFrom(lines, idx, r + 1)

\* one iteration of the loop over the lines at line 87
StyleLine ==
    /\ pc = "style_loop"
    /\ LET lines == Split(content)
       IN  /\ i < Len(lines)
           /\ suggestions' = suggestions \o RulesFrom(lines, i, 1)
    /\ i' = i + 1
    /\ UNCHANGED mainVars
    /\ UNCHANGED batchVars
    /\ UNCHANGED <<entry, pc, content, text_lines, line_map, current_text_line, text,
                   grammarVars, combineVars>>

\* line 111
StyleReturn ==
    /\ pc = "style_loop"
    /\ i = Len(Split(content))
    /\ pc' = "returned"
    /\ UNCHANGED mainVars
    /\ UNCHANGED batchVars
    /\ UNCHANGED <<entry, content, extractVars, grammarVars, suggestions, combineVars>>

(***************************************************************************)
(* The aggregator: combine_results (combine_results.py:10-66) and          *)
(* combine_suggestions (combined_check.py:45-70).                          *)
(*                                                                         *)
(* A suggestion file is missing, or holds text that is not JSON            *)
(* ("garbage"), or a JSON value: a scalar (number, null), an object, or an *)
(* array.  An item of an array is a suggestion record (kind "rec"), an      *)
(* object whose reason is null (kind "null_reason") or a JSON number (kind  *)
(* "num").                                                                  *)
(***************************************************************************)
\* an aggregator file, and a loaded JSON value: its kind and, for an array, its items
JsonValue(kind, items) == [kind |-> kind, items |-> items]
EmptyArray == JsonValue("array", <<>>)
\* the output file of a directory run before it is written
NotSaved == [written |-> FALSE, items |-> {}]

MissingFile == JsonValue("missing", <<>>)
NotWritten == [written |-> FALSE, items |-> <<>>]

Files == {"a.md", "b.md"}
Reasons == { <<"r">>, <<"Style", ":", " ", "r">> }

Records ==
    { [kind |-> "rec", file |-> f, line |-> n, reason |-> r] :
          f \in Files, n \in 1..MaxLineNo, r \in Reasons }

NumberItem == [kind |-> "num", file |-> "", line |-> 0, reason |-> <<>>]

\* {"file": "a.md", "line": 1, "reason": null}
NullReasonRecord == [kind |-> "null_reason", file |-> "a.md", line |-> 1, reason |-> <<>>]

Items == Records \cup {NullReasonRecord, NumberItem}

FileContents(n) ==
    { JsonValue(k, <<>>) : k \in {"missing", "garbage", "scalar", "object"} }
    \cup { JsonValue("array", a) : a \in UNION { [1..k -> Items] : k \in 0..n } }

\* the two files, with at most n items together
FilePairs(n) ==
    UNION { { <<s, g>> : g \in FileContents(n - Len(s.items)) } : s \in FileContents(n) }

\* lines 19-21 / 36-38 for one record
WithMarker(sugg, marker) ==
    IF ~Contains(sugg.reason, <<marker>>)
    THEN [sugg EXCEPT !.reason = <<marker, ":", " ">> \o sugg.reason]
    ELSE sugg

\* the loop of lines 19-21 / 36-38: `"reason" in sugg` raises TypeError on a
\* number, and `"Style" not in sugg["reason"]` raises TypeError on a null
\* reason; the except of line 24 / 41 ends the loop there
RECURSIVE Normalize(_, _)
Normalize(items, marker) ==
    IF items = <<>> THEN <<>>
    ELSE IF Head(items).kind # "rec" THEN items
    ELSE <<WithMarker(Head(items), marker)>> \o Normalize(Tail(items), marker)

\* lines 13-27 / 30-44: the value of style_suggestions / grammar_suggestions
\* after the block.  json.load raises before the assignment on garbage; any
\* other value is assigned before the loop runs, and the loop over a scalar
\* raises TypeError, which is caught
LoadNormalized(file, marker) ==
    CASE file.kind \in {"missing", "garbage"} -> EmptyArray
      [] file.kind \in {"scalar", "object"}   -> file
      [] file.kind = "array"                  -> JsonValue("array", Normalize(file.items, marker))

\* the sort keys: x.get("line", 0) at combine_results.py:50, and
\* (x["file"], x["line"]) at combined_check.py:64, strings in Python's order
FileRank(f) == IF f = "a.md" THEN 1 ELSE 2

KeyLE(tool, x, y) ==
    IF tool = "combine_results"
    THEN x.line <= y.line
    ELSE \/ FileRank(x.file) < FileRank(y.file)
         \/ FileRank(x.file) = FileRank(y.file) /\ x.line <= y.line

\* a slip: x goes before the elements with an equal key (an unstable sort)
InsertBeforeEqual(tool, sorted, x) ==
    LET n == Cardinality({k \in 1..Len(sorted) : ~KeyLE(tool, x, sorted[k])})
    IN  SubSeq(sorted, 1, n) \o <<x>> \o SubSeq(sorted, n + 1, Len(sorted))

\* x goes after the last element that is not greater than it
InsertSorted(tool, sorted, x) ==
    LET n == Cardinality({k \in 1..Len(sorted) : KeyLE(tool, sorted[k], x)})
    IN  SubSeq(sorted, 1, n) \o <<x>> \o SubSeq(sorted, n + 1, Len(sorted))

\* list.sort(key=...): a stable sort
RECURSIVE SortFrom(_, _, _)
SortFrom(tool, sorted, rest) ==
    IF rest = <<>> THEN sorted
    ELSE SortFrom(tool, InsertSorted(tool, sorted, Head(rest)), Tail(rest))

Sort(tool, items) == SortFrom(tool, <<>>, items)

\* style_suggestions + grammar_suggestions
Concat(style, grammar) == style \o grammar

\* combine_results.py:12-44
ResultsLoad ==
    /\ entry = "combine_results"
    /\ pc = "load"
    /\ style_suggestions' = LoadNormalized(style_file, "Style")
    /\ grammar_suggestions' = LoadNormalized(grammar_file, "Grammar")
    /\ pc' = "combine"
    /\ UNCHANGED mainVars
    /\ UNCHANGED batchVars
    /\ UNCHANGED <<entry, content, extractVars, grammarVars, suggestions,
                   style_file, grammar_file, output_file>>

\* combined_check.py:47-58: no try around json.load
SuggestionsLoad ==
    /\ entry = "combine_suggestions"
    /\ pc = "load"
    /\ IF style_file.kind = "garbage"
       THEN /\ pc' = "raised"
            /\ UNCHANGED <<style_suggestions, grammar_suggestions>>
       ELSE /\ style_suggestions' =
                   IF style_file.kind = "missing" THEN EmptyArray ELSE style_file
            /\ IF grammar_file.kind = "garbage"
               THEN /\ pc' = "raised"
                    /\ UNCHANGED grammar_suggestions
               ELSE /\ grammar_suggestions' =
                           IF grammar_file.kind = "missing" THEN EmptyArray
                           ELSE grammar_file
                    /\ pc' = "combine"
    /\ UNCHANGED mainVars
    /\ UNCHANGED batchVars
    /\ UNCHANGED <<entry, content, extractVars, grammarVars, suggestions,
                   style_file, grammar_file, output_file>>

\* combine_results.py:46-66 and combined_check.py:60-70.  `+` raises TypeError
\* unless both values are lists; the sort key raises on an item that is not an
\* object (AttributeError for .get, TypeError for ["file"]).  A failing write
\* is caught in combine_results, which then returns 0 (lines 62-64), and is
\* not caught in combine_suggestions
CombineAndWrite ==
    /\ entry \in {"combine_results", "combine_suggestions"}
    /\ pc = "combine"
    /\ IF style_suggestions.kind # "array" \/ grammar_suggestions.kind # "array"
       THEN /\ pc' = "raised"
            /\ UNCHANGED <<output_file, write_failed, total_suggestions>>
       ELSE LET combined_suggestions ==
                    Concat(style_suggestions.items, grammar_suggestions.items)
            IN  IF \E k \in 1..Len(combined_suggestions) :
                       combined_suggestions[k].kind = "num"
                THEN /\ pc' = "raised"
                     /\ UNCHANGED <<output_file, write_failed, total_suggestions>>
                ELSE IF writable
                THEN /\ output_file' =
                            [written |-> TRUE, items |-> Sort(entry, combined_suggestions)]
                     /\ total_suggestions' = Len(combined_suggestions)
                     /\ pc' = "returned"
                     /\ UNCHANGED write_failed
                ELSE /\ write_failed' = TRUE
                     /\ total_suggestions' = 0
                     /\ pc' = IF entry = "combine_results" THEN "returned" ELSE "raised"
                     /\ UNCHANGED output_file
    /\ UNCHANGED <<writable, exit_status>>
    /\ UNCHANGED batchVars
    /\ UNCHANGED <<entry, content, extractVars, grammarVars, suggestions,
                   style_file, grammar_file, style_suggestions, grammar_suggestions>>

\* combine_results.py:86-90
ExitStatus(total, style_exists, grammar_exists) ==
    IF total > 0 \/ (~style_exists /\ ~grammar_exists) THEN 0 ELSE 1

\* combine_results.py:86-90: sys.exit after combine_results returned
ResultsExit ==
    /\ entry = "combine_results"
    /\ pc = "returned"
    /\ exit_status' = ExitStatus(total_suggestions, style_file.kind # "missing",
                                 grammar_file.kind # "missing")
    /\ pc' = "exited"
    /\ UNCHANGED <<writable, write_failed, total_suggestions>>
    /\ UNCHANGED batchVars
    /\ UNCHANGED <<entry, content, extractVars, grammarVars, suggestions, combineVars>>

\* an exception leaving combine_results ends the interpreter with status 1
ResultsAbort ==
    /\ entry = "combine_results"
    /\ pc = "raised"
    /\ exit_status' = 1
    /\ pc' = "exited"
    /\ UNCHANGED <<writable, write_failed, total_suggestions>>
    /\ UNCHANGED batchVars
    /\ UNCHANGED <<entry, content, extractVars, grammarVars, suggestions, combineVars>>

(***************************************************************************)
(* Documents.  A document is the '\n'-join of 1..n lines of a catalogue.   *)
(***************************************************************************)
Documents(catalogue, n) ==
    { Join(d) : d \in UNION { [1..k -> catalogue] : k \in 1..n } }

ExtractCatalogue ==
    { <<>>,                                  \* empty line
      <<" ">>,                               \* whitespace only
      FrontmatterMarker,                     \* ---
      Fence,                                 \* fence at column 0
      <<" ">> \o Fence,                      \* indented fence
      <<"#", " ", "title">>,                 \* heading
      <<"-", " ", "item">>,                  \* list item
      <<">", " ", "quote">>,                 \* block quote
      <<"[", "ref", "]", ":", " ", "url">>,  \* link reference definition
      <<Image>>,                             \* image only: no text after rendering
      <<"*", "teh", "*">>,                   \* emphasis
      <<"teh", " ", "cat">>,                 \* prose
      <<"code">> }                           \* one word

GrammarCatalogue ==
    { <<"teh", " ", "cat">>,
      <<"teh", " ", "teh">>,
      <<">", " ", "teh">>,
      <<"#", " ", "t">> }

InitIdle ==
    /\ i = 0
    /\ text_lines = <<>>
    /\ line_map = <<>>
    /\ current_text_line = 0
    /\ text = <<>>
    /\ service = "not_called"
    /\ m = 0
    /\ match = NoMatch
    /\ emitted = <<>>
    /\ suggestions = <<>>
    /\ style_file = MissingFile
    /\ grammar_file = MissingFile
    /\ style_suggestions = EmptyArray
    /\ grammar_suggestions = EmptyArray
    /\ output_file = NotWritten
    /\ writable = TRUE
    /\ write_failed = FALSE
    /\ total_suggestions = 0
    /\ exit_status = -1
    /\ documents = <<>>
    /\ visited = 0
    /\ all_suggestions = <<>>
    /\ all_style_suggestions = <<>>
    /\ all_grammar_suggestions = <<>>
    /\ saved = NotSaved

\* extract_text_from_markdown(content)
InitExtract ==
    /\ entry = "extract_text_from_markdown"
    /\ pc = "extract_loop"
    /\ content \in Documents(ExtractCatalogue, MaxLines)
    /\ InitIdle

NextExtract == ExtractLine \/ ExtractReturn

SpecExtract == InitExtract /\ [][NextExtract]_vars

\* check_grammar(content, file_path)
InitGrammar ==
    /\ entry = "check_grammar"
    /\ pc = "extract_loop"
    /\ content \in Documents(GrammarCatalogue, MaxGrammarLines)
    /\ InitIdle

NextGrammar ==
    \/ ExtractLine
    \/ ExtractReturn
    \/ ReturnEmptyText
    \/ CallService
    \/ ProcessMatch
    \/ ReturnSuggestions

SpecGrammar == InitGrammar /\ [][NextGrammar]_vars

(***************************************************************************)
(* Claims about the block classifier and the prose extractor.              *)
(***************************************************************************)
DocLines == Split(content)
LineIndices == 0..(Len(DocLines) - 1)
Retained == { line_map[t] : t \in DOMAIN line_map }
IsOdd(n) == n % 2 = 1

\* C8: is_in_yaml_frontmatter(lines, i) is true iff line 0 is exactly "---" and
\* (i = 0 or an odd number of lines before i are exactly "---"); so it is false
\* at every index of a document whose first line is not "---".  Stated for the
\* lines the extractor has classified so far.
C8_FrontmatterContract ==
    \A idx \in LineIndices :
        idx < i =>
            ( is_in_yaml_frontmatter(DocLines, idx)
              <=> /\ DocLines[1] = FrontmatterMarker
                  /\ \/ idx = 0
                     \/ IsOdd(Cardinality({j \in 0..(idx - 1) :
                                              DocLines[j + 1] = FrontmatterMarker})) )

\* inside a fenced block, the delimiters being the lines the extractor skips as
\* fence markers: an odd number of them precede the line
InsideFencedBlock(lines, idx) ==
    /\ ~IsFenceMarker(lines[idx + 1])
    /\ IsOdd(Cardinality({j \in 0..(idx - 1) : IsFenceMarker(lines[j + 1])}))

\* C7: a line is retained iff it is not inside a fenced code block, not inside
\* frontmatter, not a heading, list item, fence delimiter, link reference or
\* blank line, and not empty after markup stripping; every line between two
\* delimiter lines that the extractor skips as fences is excluded.
C7_RetainedIff ==
    pc = "extracted" =>
        \A idx \in LineIndices :
            LET line == DocLines[idx + 1]
            IN  idx \in Retained
                <=> ~( \/ InsideFencedBlock(DocLines, idx)
                       \/ is_in_yaml_frontmatter(DocLines, idx)
                       \/ IsHeading(line)
                       \/ IsListItem(line)
                       \/ IsFenceMarker(line)
                       \/ IsLinkReference(line)
                       \/ Strip(line) = <<>>
                       \/ Strip(MarkdownGetText(line)) = <<>> )

\* the number of lines of a Python string
LineCount(s) == Len(Split(s))

\* C3: line_map has keys exactly 0..k-1, strictly increasing values, one entry
\* per retained prose line, and k is the number of lines of the extracted text
\* when that text is not empty.
C3_IndexMatchesText ==
    pc = "extracted" =>
        LET k == Cardinality(DOMAIN line_map)
        IN  /\ DOMAIN line_map = 0..(k - 1)
            /\ \A a, b \in DOMAIN line_map : a < b => line_map[a] < line_map[b]
            /\ k = Len(text_lines)
            /\ text # <<>> => k = LineCount(text)

(***************************************************************************)
(* Claims about check_grammar.                                             *)
(***************************************************************************)
\* the loop has processed a match that is a JSON object: `match` and `emitted`
\* are that match and what it appended
MatchProcessed == pc \in {"match_loop", "returned"} /\ m > 0 /\ match.kind = "match"

\* the number of newline characters of the extracted text before the match offset
NewlinesBefore(offset) ==
    Cardinality({p \in 1..Len(text) : p <= offset /\ text[p] = NL})

\* C2: no suggestion has original equal to suggested, also when the first
\* replacement of the service equals the erroneous text.
C2_NoNoOpSuggestion ==
    \A k \in 1..Len(suggestions) : suggestions[k].original # suggestions[k].suggested

\* the line with its first occurrence of old replaced by new
ReplaceFirst(line, old, new) ==
    LET p == CHOOSE q \in 1..(Len(line) + 1) :
                 MatchesAt(line, q, old) /\ \A r \in 1..(q - 1) : ~MatchesAt(line, r, old)
    IN  SubSeq(line, 1, p - 1) \o new \o SubSeq(line, p + Len(old), Len(line))

\* C5: a match that resolves to an original line containing its error text, with
\* at least one replacement offered (the empty string included), emits one
\* suggestion: the line with the first replacement substituted for the located
\* occurrence of the error text, with reason "Grammar: <message>".
C5_ResolvedMatchEmits ==
    MatchProcessed =>
        LET t == NewlinesBefore(match.offset)
        IN  ( /\ t \in DOMAIN line_map
              /\ Contains(DocLines[line_map[t] + 1], ErrorText(match))
              /\ match.replacements # <<>> )
            => /\ Len(emitted) = 1
               /\ emitted[1].suggested =
                      ReplaceFirst(DocLines[line_map[t] + 1], ErrorText(match),
                                   match.replacements[1])
               /\ emitted[1].reason = <<"Grammar", ":", " ">> \o match.message

\* C6: every suggestion of check_grammar is anchored to the line the index
\* resolves for its match: with t the number of newlines before the match
\* offset, line = line_map[t] + 1, original is the document line line_map[t],
\* and that line contains the error text; a match whose error text is not in
\* the resolved line, or whose t is not in the index, emits nothing.
C6_AnchoredToResolvedLine ==
    /\ \A k \in 1..Len(suggestions) :
           /\ (suggestions[k].line - 1) \in Retained
           /\ suggestions[k].original = DocLines[suggestions[k].line]
    /\ MatchProcessed =>
           LET t == NewlinesBefore(match.offset)
           IN  /\ Len(emitted) <= 1
               /\ \A k \in 1..Len(emitted) :
                      /\ t \in DOMAIN line_map
                      /\ emitted[k].line = line_map[t] + 1
                      /\ emitted[k].original = DocLines[line_map[t] + 1]
                      /\ Contains(emitted[k].original, ErrorText(match))
                      /\ emitted[k] = suggestions[Len(suggestions)]
               /\ ( \/ t \notin DOMAIN line_map
                    \/ ~Contains(DocLines[line_map[t] + 1], ErrorText(match)) )
                  => emitted = <<>>

\* a suggestion on a line whose number in the document differs from its number
\* in the extracted text
C6_Reached ==
    /\ MatchProcessed
    /\ emitted # <<>>
    /\ emitted[1].line # NewlinesBefore(match.offset) + 1

\* a match dropped because its extracted line number is not in the index
C6_ReachedUnmapped ==
    /\ MatchProcessed
    /\ NewlinesBefore(match.offset) \notin DOMAIN line_map

\* C9: a failure of the grammar service (network error, non-2xx status, a body
\* that is not JSON, a response of the wrong shape) makes check_grammar return
\* an empty list and never raises.
C9_ServiceFailureIsEmpty ==
    (service \in {"network_error", "http_error", "bad_json", "not_object"}
         \/ match.kind = "not_object")
    => /\ pc # "raised"
       /\ pc = "returned" => suggestions = <<>>

(***************************************************************************)
(* check_style(content, file_path).                                        *)
(***************************************************************************)
ExampleLine ==
    Words(<<"We", "need", "to", "utilize", "this", "tool", "in", "order", "to",
            "succeed">>) \o <<".">>

StyleCatalogue ==
    { ExampleLine,
      Fence,
      Words(<<"Utilize", "utilizes">>),
      Words(<<"you", "should", "optimize">>),
      Words(<<"plain", "text">>) }

InitStyle ==
    /\ entry = "check_style"
    /\ pc = "style_loop"
    /\ content \in Documents(StyleCatalogue, MaxLines)
    /\ InitIdle

NextStyle == StyleLine \/ StyleReturn

SpecStyle == InitStyle /\ [][NextStyle]_vars

\* C1: check_style emits at most one suggestion per original line (the first
\* rule that matches and changes the line; no later rule is tried), so the line
\* "We need to utilize this tool in order to succeed." yields exactly one
\* suggestion, "We need to use this tool in order to succeed.".
C1_OneSuggestionPerLine ==
    /\ \A n \in 1..Len(DocLines) :
           Cardinality({k \in 1..Len(suggestions) : suggestions[k].line = n}) <= 1
    /\ (pc = "returned" /\ content = ExampleLine)
       => /\ Len(suggestions) = 1
          /\ suggestions[1].suggested =
                 Words(<<"We", "need", "to", "use", "this", "tool", "in", "order", "to",
                         "succeed">>) \o <<".">>

(***************************************************************************)
(* The aggregator, called with the two files in any of their states.       *)
(***************************************************************************)
InitCombine ==
    /\ entry \in {"combine_results", "combine_suggestions"}
    /\ pc = "load"
    /\ content = <<>>
    /\ i = 0
    /\ text_lines = <<>>
    /\ line_map = <<>>
    /\ current_text_line = 0
    /\ text = <<>>
    /\ service = "not_called"
    /\ m = 0
    /\ match = NoMatch
    /\ emitted = <<>>
    /\ suggestions = <<>>
    /\ \E files \in FilePairs(MaxItems) :
           /\ style_file = files[1]
           /\ grammar_file = files[2]
    /\ style_suggestions = EmptyArray
    /\ grammar_suggestions = EmptyArray
    /\ output_file = NotWritten
    /\ writable = TRUE
    /\ write_failed = FALSE
    /\ total_suggestions = 0
    /\ exit_status = -1
    /\ documents = <<>>
    /\ visited = 0
    /\ all_suggestions = <<>>
    /\ all_style_suggestions = <<>>
    /\ all_grammar_suggestions = <<>>
    /\ saved = NotSaved

NextCombine == ResultsLoad \/ SuggestionsLoad \/ CombineAndWrite

SpecCombine == InitCombine /\ [][NextCombine]_vars

\* the index of the sort key of x among the keys, per tool
SameKey(tool, x, y) ==
    IF tool = "combine_results" THEN x.line = y.line
    ELSE x.file = y.file /\ x.line = y.line

InOrder(tool, x, y) ==
    IF tool = "combine_results" THEN x.line <= y.line
    ELSE \/ x.file = "a.md" /\ y.file = "b.md"
         \/ x.file = y.file /\ x.line <= y.line

\* C4: the sequence written is a permutation of (style suggestions followed by
\* grammar suggestions), sorted non-decreasingly by line (combine_results) or by
\* (file, line) (combine_suggestions), and stable: suggestions with equal keys
\* keep their input order, so style precedes grammar on the same key.
C4_StableSortedMerge ==
    (pc = "returned" /\ output_file.written) =>
        LET input  == style_suggestions.items \o grammar_suggestions.items
            output == output_file.items
        IN  /\ Len(output) = Len(input)
            /\ \A k \in 1..(Len(output) - 1) : InOrder(entry, output[k], output[k + 1])
            /\ \A r \in Records :
                   LET Same(x) == SameKey(entry, x, r)
                   IN  SelectSeq(output, Same) = SelectSeq(input, Same)

\* a style suggestion on a later line than the grammar suggestion of the same
\* file: the grammar suggestion is written first
C4_Reached ==
    /\ pc = "returned"
    /\ output_file.written
    /\ Len(style_suggestions.items) = 1
    /\ Len(grammar_suggestions.items) = 1
    /\ style_suggestions.items[1].file = grammar_suggestions.items[1].file
    /\ style_suggestions.items[1].line > grammar_suggestions.items[1].line
    /\ output_file.items = <<grammar_suggestions.items[1], style_suggestions.items[1]>>

\* a source that is missing, or present but not an array of objects
NotSuggestions(file) ==
    \/ file.kind # "array"
    \/ \E k \in 1..Len(file.items) : file.items[k].kind = "num"

Contribution(file) == IF NotSuggestions(file) THEN 0 ELSE Len(file.items)

\* C10: a source file that is missing, or is not valid interchange JSON
\* (unparseable, or not an array of suggestion records), is an empty suggestion
\* set: it contributes no record, the other source is still combined and
\* written, and the run does not abort.
C10_BadSourceIsEmpty ==
    (NotSuggestions(style_file) \/ NotSuggestions(grammar_file)) =>
        /\ pc # "raised"
        /\ pc = "returned" =>
               /\ output_file.written
               /\ Len(output_file.items) =
                      Contribution(style_file) + Contribution(grammar_file)

(***************************************************************************)
(* combine_results.py run as a script: combine_results, then sys.exit.     *)
(***************************************************************************)
InitResultsMain ==
    /\ entry = "combine_results"
    /\ pc = "load"
    /\ content = <<>>
    /\ i = 0
    /\ text_lines = <<>>
    /\ line_map = <<>>
    /\ current_text_line = 0
    /\ text = <<>>
    /\ service = "not_called"
    /\ m = 0
    /\ match = NoMatch
    /\ emitted = <<>>
    /\ suggestions = <<>>
    /\ \E files \in FilePairs(MaxItems) :
           /\ style_file = files[1]
           /\ grammar_file = files[2]
    /\ style_suggestions = EmptyArray
    /\ grammar_suggestions = EmptyArray
    /\ output_file = NotWritten
    /\ writable \in BOOLEAN
    /\ write_failed = FALSE
    /\ total_suggestions = 0
    /\ exit_status = -1
    /\ documents = <<>>
    /\ visited = 0
    /\ all_suggestions = <<>>
    /\ all_style_suggestions = <<>>
    /\ all_grammar_suggestions = <<>>
    /\ saved = NotSaved

NextResultsMain == ResultsLoad \/ CombineAndWrite \/ ResultsExit \/ ResultsAbort

SpecResultsMain == InitResultsMain /\ [][NextResultsMain]_vars

\* C11: whenever writing the combined output file fails, the combine_results
\* run ends with a non-zero exit status, whichever of the two input files
\* exist, also when both are absent.
C11_WriteFailureIsFailure ==
    (pc = "exited" /\ write_failed) => exit_status # 0

\* the records of a collection that have a reason all carry the marker
Marked(items, marker) ==
    \A k \in 1..Len(items) :
        items[k].kind = "rec" => Contains(items[k].reason, <<marker>>)

\* the records of the file that already carry the marker are as they were
MarkedKept(file, items, marker) ==
    /\ Len(items) = Len(file.items)
    /\ \A k \in 1..Len(items) :
           (file.items[k].kind = "rec" /\ Contains(file.items[k].reason, <<marker>>))
               => items[k] = file.items[k]

\* C13: after combine_results has normalised the reasons, every style record
\* that has a reason contains "Style" and every grammar record that has a
\* reason contains "Grammar"; a reason that already had its marker is
\* unchanged; and normalising the normalised records again changes nothing.
C13_NormalizedOnceAndForAll ==
    (entry = "combine_results" /\ pc = "returned"
        /\ style_file.kind = "array" /\ grammar_file.kind = "array") =>
        /\ Marked(style_suggestions.items, "Style")
        /\ Marked(grammar_suggestions.items, "Grammar")
        /\ MarkedKept(style_file, style_suggestions.items, "Style")
        /\ MarkedKept(grammar_file, grammar_suggestions.items, "Grammar")
        /\ LoadNormalized(style_suggestions, "Style") = style_suggestions
        /\ LoadNormalized(grammar_suggestions, "Grammar") = grammar_suggestions

(***************************************************************************)
(* check_grammar on documents with little or no prose.                     *)
(***************************************************************************)
NoProseCatalogue ==
    { <<>>,                     \* empty line; alone, the empty document
      Fence,                    \* fence
      FrontmatterMarker,        \* ---
      <<"#", " ", "title">>,    \* heading
      <<"code">> }              \* one word: code inside a fence, prose outside

InitNoProse ==
    /\ entry = "check_grammar"
    /\ pc = "extract_loop"
    /\ content \in Documents(NoProseCatalogue, MaxLines)
    /\ InitIdle

SpecNoProse == InitNoProse /\ [][NextGrammar]_vars

\* the documents the claim names: the empty one, those made of fences,
\* frontmatter markers and headings only, and fence / code line / fence
OnlyStructure(lines) ==
    \/ \A k \in 1..Len(lines) :
           lines[k] \in {<<>>, Fence, FrontmatterMarker, <<"#", " ", "title">>}
    \/ lines = <<Fence, <<"code">>, Fence>>

\* C14: a document that is empty or has no retained prose line (only fences,
\* frontmatter, headings, or fence / code line / fence) is extracted to the
\* empty text and an empty index; check_grammar then returns the empty list
\* without calling the service, and nothing raises.
C14_NoProseSkipsService ==
    pc # "extract_loop" =>
        /\ OnlyStructure(Split(content)) => DOMAIN line_map = {}
        /\ DOMAIN line_map = {} =>
               /\ text = <<>>
               /\ text_lines = <<>>
               /\ service = "not_called"
               /\ pc \in {"extracted", "returned"}
               /\ suggestions = <<>>

\* check_grammar has returned on fence / code line / fence
C14_Reached ==
    /\ pc = "returned"
    /\ Split(content) = <<Fence, <<"code">>, Fence>>
    /\ DOMAIN line_map = {}
    /\ service = "not_called"
    /\ suggestions = <<>>

(***************************************************************************)
(* The directory runs: grammar_check.py main (--dir), combined_check.py    *)
(* main (--dir) and style_check.py main (the changed files of a pull       *)
(* request).  A document is given by what happens when it is processed:    *)
(*                                                                         *)
(* grammar (grammar_check.py main)                                         *)
(*   unreadable     open or read raises (permissions, not UTF-8)           *)
(*   no_prose       check_grammar returns [] before the service call       *)
(*   ok             the service answers; one suggestion is produced        *)
(*   network_error  the call raises a RequestException: []                 *)
(*   not_object     the service answers with JSON that is not an object:   *)
(*                  result.get raises                                      *)
(*   no_response    the service accepts the request and never answers      *)
(* style / grammar (combined_check.py main), the analyser subprocess       *)
(*   ok             exit status 0, the output file holds one suggestion    *)
(*   fails          non-zero exit status: CalledProcessError               *)
(*   no_output      exit status 0, no output file (style checker only: it  *)
(*   bad_output     exit status 0, the output is not JSON   is not in the  *)
(*                  repository; grammar_check.py writes its output before  *)
(*                  it exits with 0)                                       *)
(* style (style_check.py main)                                             *)
(*   ok             the content is fetched; one suggestion is produced     *)
(*   fetch_error    get_file_content raises                                *)
(*   empty          get_file_content returns nothing                       *)
(*                                                                         *)
(* A suggestion is [file, tool]: the document's position and the analyser. *)
(***************************************************************************)
GrammarConditions ==
    { [style |-> "none", grammar |-> g] :
          g \in {"unreadable", "no_prose", "ok", "network_error", "not_object",
                 "no_response"} }

CombinedConditions ==
    { [style |-> st, grammar |-> g] :
          st \in {"ok", "fails", "no_output", "bad_output"}, g \in {"ok", "fails"} }

StyleConditions ==
    { [style |-> st, grammar |-> "none"] : st \in {"ok", "fetch_error", "empty"} }

Conditions(tool) ==
    CASE tool = "grammar_main"  -> GrammarConditions
      [] tool = "combined_main" -> CombinedConditions
      [] tool = "style_main"    -> StyleConditions

Suggestion(file, tool) == [file |-> file, tool |-> tool]

\* the elements of a list, as a set
Elements(list) == { list[k] : k \in 1..Len(list) }

\* grammar_check.py:199-203 and check_grammar up to requests.post (line 88)
GrammarMainFile ==
    /\ entry = "grammar_main"
    /\ pc = "walk"
    /\ visited < Len(documents)
    /\ LET doc == documents[visited + 1]
       IN  CASE doc.grammar = "unreadable" ->
                    /\ pc' = "crashed"
                    /\ UNCHANGED visited
             [] doc.grammar = "no_prose" ->
                    /\ visited' = visited + 1
                    /\ UNCHANGED pc
             [] OTHER ->
                    /\ pc' = "waiting"
                    /\ UNCHANGED visited
    /\ UNCHANGED <<documents, all_suggestions, all_style_suggestions,
                   all_grammar_suggestions, saved>>
    /\ UNCHANGED mainVars
    /\ UNCHANGED <<entry, content, extractVars, grammarVars, suggestions, combineVars>>

\* requests.post returns or raises (grammar_check.py:88-93, no timeout is
\* passed); then the rest of check_grammar and grammar_check.py:205-207
ServiceResponds ==
    /\ entry = "grammar_main"
    /\ pc = "waiting"
    /\ LET doc == documents[visited + 1]
       IN  /\ doc.grammar # "no_response"
           /\ CASE doc.grammar = "ok" ->
                       /\ all_suggestions' =
                              Append(all_suggestions, Suggestion(visited + 1, "grammar"))
                       /\ visited' = visited + 1
                       /\ pc' = "walk"
                [] doc.grammar = "network_error" ->
                       /\ visited' = visited + 1
                       /\ pc' = "walk"
                       /\ UNCHANGED all_suggestions
                [] doc.grammar = "not_object" ->
                       /\ pc' = "crashed"
                       /\ UNCHANGED <<visited, all_suggestions>>
    /\ UNCHANGED <<documents, all_style_suggestions, all_grammar_suggestions, saved>>
    /\ UNCHANGED mainVars
    /\ UNCHANGED <<entry, content, extractVars, grammarVars, suggestions, combineVars>>

\* grammar_check.py:211-213
GrammarMainSave ==
    /\ entry = "grammar_main"
    /\ pc = "walk"
    /\ visited = Len(documents)
    /\ saved' = [written |-> TRUE, items |-> Elements(all_suggestions)]
    /\ pc' = "saved"
    /\ UNCHANGED <<documents, visited, all_suggestions, all_style_suggestions,
                   all_grammar_suggestions>>
    /\ UNCHANGED mainVars
    /\ UNCHANGED <<entry, content, extractVars, grammarVars, suggestions, combineVars>>

\* combined_check.py:134-156: one document of the loop
CombinedMainFile ==
    /\ entry = "combined_main"
    /\ pc = "walk"
    /\ visited < Len(documents)
    /\ LET doc == documents[visited + 1]
       IN  IF doc.style \in {"no_output", "bad_output"}
           THEN \* open or json.load raises at lines 139-140
                /\ pc' = "crashed"
                /\ UNCHANGED <<visited, all_style_suggestions, all_grammar_suggestions>>
           ELSE /\ all_style_suggestions' =
                       IF doc.style = "ok"
                       THEN Append(all_style_suggestions, Suggestion(visited + 1, "style"))
                       ELSE all_style_suggestions
                /\ all_grammar_suggestions' =
                       IF doc.grammar = "ok"
                       THEN Append(all_grammar_suggestions, Suggestion(visited + 1, "grammar"))
                       ELSE all_grammar_suggestions
                /\ visited' = visited + 1
                /\ UNCHANGED pc
    /\ UNCHANGED <<documents, all_suggestions, saved>>
    /\ UNCHANGED mainVars
    /\ UNCHANGED <<entry, content, extractVars, grammarVars, suggestions, combineVars>>

\* combined_check.py:158-168: the two lists are written and combined; the
\* order within the output is that of combine_suggestions
CombinedMainSave ==
    /\ entry = "combined_main"
    /\ pc = "walk"
    /\ visited = Len(documents)
    /\ saved' = [written |-> TRUE,
                 items |-> Elements(Concat(all_style_suggestions,
                                           all_grammar_suggestions))]
    /\ pc' = "saved"
    /\ UNCHANGED <<documents, visited, all_suggestions, all_style_suggestions,
                   all_grammar_suggestions>>
    /\ UNCHANGED mainVars
    /\ UNCHANGED <<entry, content, extractVars, grammarVars, suggestions, combineVars>>

\* style_check.py:188-199: one changed file, inside try / except Exception
StyleMainFile ==
    /\ entry = "style_main"
    /\ pc = "walk"
    /\ visited < Len(documents)
    /\ all_suggestions' =
           IF documents[visited + 1].style = "ok"
           THEN Append(all_suggestions, Suggestion(visited + 1, "style"))
           ELSE all_suggestions
    /\ visited' = visited + 1
    /\ UNCHANGED <<pc, documents, all_style_suggestions, all_grammar_suggestions, saved>>
    /\ UNCHANGED mainVars
    /\ UNCHANGED <<entry, content, extractVars, grammarVars, suggestions, combineVars>>

\* style_check.py:201-202
StyleMainSave ==
    /\ entry = "style_main"
    /\ pc = "walk"
    /\ visited = Len(documents)
    /\ saved' = [written |-> TRUE, items |-> Elements(all_suggestions)]
    /\ pc' = "saved"
    /\ UNCHANGED <<documents, visited, all_suggestions, all_style_suggestions,
                   all_grammar_suggestions>>
    /\ UNCHANGED mainVars
    /\ UNCHANGED <<entry, content, extractVars, grammarVars, suggestions, combineVars>>

InitBatch ==
    /\ entry \in {"grammar_main", "combined_main", "style_main"}
    /\ pc = "walk"
    /\ content = <<>>
    /\ i = 0
    /\ text_lines = <<>>
    /\ line_map = <<>>
    /\ current_text_line = 0
    /\ text = <<>>
    /\ service = "not_called"
    /\ m = 0
    /\ match = NoMatch
    /\ emitted = <<>>
    /\ suggestions = <<>>
    /\ style_file = MissingFile
    /\ grammar_file = MissingFile
    /\ style_suggestions = EmptyArray
    /\ grammar_suggestions = EmptyArray
    /\ output_file = NotWritten
    /\ writable = TRUE
    /\ write_failed = FALSE
    /\ total_suggestions = 0
    /\ exit_status = -1
    /\ documents \in UNION { [1..n -> Conditions(entry)] : n \in 0..MaxDocs }
    /\ visited = 0
    /\ all_suggestions = <<>>
    /\ all_style_suggestions = <<>>
    /\ all_grammar_suggestions = <<>>
    /\ saved = NotSaved

NextBatch ==
    \/ GrammarMainFile
    \/ ServiceResponds
    \/ GrammarMainSave
    \/ CombinedMainFile
    \/ CombinedMainSave
    \/ StyleMainFile
    \/ StyleMainSave

SpecBatch == InitBatch /\ [][NextBatch]_vars

\* the suggestions the run has produced so far
Produced ==
    Elements(all_suggestions) \cup Elements(all_style_suggestions)
        \cup Elements(all_grammar_suggestions)

\* C12: in a directory run, the failure of one document never discards the
\* suggestions of another: when the run has ended, every suggestion produced
\* for a document that was processed is in the saved output, whatever the
\* order of the documents.
C12_FailureKeepsOtherSuggestions ==
    pc \in {"saved", "crashed"} =>
        \A sugg \in Produced : saved.written /\ sugg \in saved.items

\* C15: the call to the grammar service always completes: a call in flight
\* can always end, by a response or by a timeout, so that the directory run
\* goes on to its next document or to the save step.
C15_ServiceCallCompletes ==
    (entry = "grammar_main" /\ pc = "waiting") => ENABLED ServiceResponds

=============================================================================
